---- MODULE Spec2Model ----
(***************************************************************************)
(* State-machine model of the CIQ brand-assets MCP server                  *)
(* (src/ciq_brand_assets_cloud.py): the module-level inventory cache, the  *)
(* attribute detector, the asset matcher / scorer and the response         *)
(* formatter, as driven by the tools get_brand_asset and list_all_assets.  *)
(*                                                                         *)
(* Python strings are TLA+ strings; `p in s` is substring search, done     *)
(* with Len and SubSeq on the characters.  Python dicts keep insertion     *)
(* order, so a dict is a sequence of entries; an asset record is a TLA+    *)
(* record whose DOMAIN is the set of keys the JSON object has.             *)
(***************************************************************************)
EXTENDS Integers, Sequences, FiniteSets, TLC

(***************************************************************************)
(* String primitives of Python used by the program.                        *)
(***************************************************************************)

\* s[i], as a one-character string.
CharAt(s, i) == SubSeq(s, i, i)

\* `pattern in s` for two str values.
Contains(pattern, s) ==
    \E i \in 1..(Len(s) - Len(pattern) + 1) :
        SubSeq(s, i, i + Len(pattern) - 1) = pattern

UpperLetters == "ABCDEFGHIJKLMNOPQRSTUVWXYZ"
LowerLetters == "abcdefghijklmnopqrstuvwxyz"

UpperSet == {CharAt(UpperLetters, i) : i \in 1..Len(UpperLetters)}
LowerSet == {CharAt(LowerLetters, i) : i \in 1..Len(LowerLetters)}

\* The lower-case letter of an upper-case one, and back.
ToLower == [c \in UpperSet |->
               CharAt(LowerLetters, CHOOSE i \in 1..Len(UpperLetters) : CharAt(UpperLetters, i) = c)]
ToUpper == [c \in LowerSet |->
               CharAt(UpperLetters, CHOOSE i \in 1..Len(LowerLetters) : CharAt(LowerLetters, i) = c)]

LowerChar(c) == IF c \in UpperSet THEN ToLower[c] ELSE c
UpperChar(c) == IF c \in LowerSet THEN ToUpper[c] ELSE c
IsLetter(c) == c \in UpperSet \/ c \in LowerSet

\* str.lower()
RECURSIVE Lower(_)
Lower(s) == IF Len(s) = 0 THEN "" ELSE LowerChar(CharAt(s, 1)) \o Lower(SubSeq(s, 2, Len(s)))

\* str.title() on the ASCII words the program applies it to: the first letter
\* of every run of letters is upper-cased, the others lower-cased.
RECURSIVE TitleFrom(_, _, _)
TitleFrom(s, i, prevLetter) ==
    IF i > Len(s) THEN ""
    ELSE LET c == CharAt(s, i)
         IN  (IF prevLetter THEN LowerChar(c) ELSE UpperChar(c))
             \o TitleFrom(s, i + 1, IsLetter(c))

Title(s) == TitleFrom(s, 1, FALSE)

\* len(s.split()): the number of maximal runs of non-blank characters.
WordCount(s) ==
    Cardinality({i \in 1..Len(s) :
        CharAt(s, i) # " " /\ (i = 1 \/ CharAt(s, i - 1) = " ")})

\* s.replace(old, new), replacing left to right without overlap.
RECURSIVE Replace(_, _, _)
Replace(s, old, new) ==
    IF Len(s) < Len(old) \/ Len(old) = 0 THEN s
    ELSE IF SubSeq(s, 1, Len(old)) = old
         THEN new \o Replace(SubSeq(s, Len(old) + 1, Len(s)), old, new)
         ELSE CharAt(s, 1) \o Replace(SubSeq(s, 2, Len(s)), old, new)

\* any(p in s for p in patterns), patterns a sequence of strings.
AnyIn(patterns, s) == \E k \in 1..Len(patterns) : Contains(patterns[k], s)

\* sum of f[k] for k in 1..n
RECURSIVE SumTo(_, _)
SumTo(f, n) == IF n = 0 THEN 0 ELSE f[n] + SumTo(f, n - 1)

Min(a, b) == IF a < b THEN a ELSE b

(***************************************************************************)
(* AttributeDetector.__init__: the keyword tables, in registration order.  *)
(***************************************************************************)

product_patterns == <<
    [key |-> "ciq",          patterns |-> <<"ciq", "company", "brand", "main">>],
    [key |-> "fuzzball",     patterns |-> <<"fuzzball", "fuzz ball", "workload", "hpc">>],
    [key |-> "warewulf",     patterns |-> <<"warewulf", "warewulf pro", "cluster", "provisioning">>],
    [key |-> "apptainer",    patterns |-> <<"apptainer", "container", "scientific">>],
    [key |-> "ascender",     patterns |-> <<"ascender", "ascender pro", "automation", "ansible">>],
    [key |-> "bridge",       patterns |-> <<"bridge", "centos", "migration">>],
    [key |-> "rlc",          patterns |-> <<"rlc", "rocky linux commercial", "rocky linux">>],
    [key |-> "rlc-ai",       patterns |-> <<"rlc-ai", "rlc ai", "rocky linux ai", "rocky linux commercial ai">>],
    [key |-> "rlc-hardened", patterns |-> <<"rlc-hardened", "rlc hardened", "rocky linux hardened",
                                            "rocky linux commercial hardened">>],
    [key |-> "rlc-lts",      patterns |-> <<"rlc-lts", "rlc lts", "rocky linux lts",
                                            "rocky linux commercial lts">>] >>

background_patterns == <<
    [key |-> "light", patterns |-> <<"light", "white", "light background">>],
    [key |-> "dark",  patterns |-> <<"dark", "black", "dark background">>] >>

layout_patterns == <<
    [key |-> "icon",       patterns |-> <<"symbol", "icon", "favicon", "app icon">>],
    [key |-> "horizontal", patterns |-> <<"horizontal", "wide", "header", "lockup", "full logo", "wordmark">>],
    [key |-> "vertical",   patterns |-> <<"vertical", "tall", "stacked">>],
    [key |-> "1color",     patterns |-> <<"1-color", "1 color", "one color", "standard">>],
    [key |-> "2color",     patterns |-> <<"2-color", "2 color", "two color", "hero">>] >>

ciq_color_type_patterns == <<
    [key |-> "1color_neutral", patterns |-> <<"standard", "neutral", "basic", "1-color", "1 color">>],
    [key |-> "1color_green",   patterns |-> <<"green", "punch", "advertising", "social media", "exciting">>],
    [key |-> "2color",         patterns |-> <<"hero", "2-color", "2 color", "primary visual", "presentations">>] >>

\* Points of the detector and thresholds of the matcher.
ProductCap == 50
WordPoints == 10
RlcVariantBonus == 20
BackgroundPoints == 60
LayoutPoints == 30
ColorTypePoints == 40
HighThreshold == 110
MediumThreshold == 50

\* Python's None for an Optional[Dict] attribute, and a detected attribute.
NoneAttr == [set |-> FALSE, value |-> "", confidence |-> 0]
Attr(v, c) == [set |-> TRUE, value |-> v, confidence |-> c]

(***************************************************************************)
(* AttributeDetector                                                       *)
(***************************************************************************)

\* str.startswith
StartsWith(s, prefix) == Len(s) >= Len(prefix) /\ SubSeq(s, 1, Len(prefix)) = prefix

\* One pattern's contribution to a product's score (the body of the inner loop).
PatternScore(product, pattern, request) ==
    IF Contains(pattern, request)
    THEN WordCount(pattern) * WordPoints
         + (IF StartsWith(product, "rlc-") /\ Contains(pattern, request)
            THEN RlcVariantBonus ELSE 0)
    ELSE 0

\* The accumulated score of one product, before the cap.
ProductScore(entry, request) ==
    SumTo([k \in 1..Len(entry.patterns) |->
              PatternScore(entry.key, entry.patterns[k], request)],
          Len(entry.patterns))

\* The dict `scores`: index i of product_patterns is a key iff its score is
\* positive; its value is the capped score.
ProductScores(request) ==
    [i \in 1..Len(product_patterns) |->
        LET score == ProductScore(product_patterns[i], request)
        IN  IF score > 0 THEN Min(score, ProductCap) ELSE 0]

\* Mutant of _detect_product: among the keys with the largest value the last
\* one is taken.
DetectLastBestProduct(request) ==
    LET scores == ProductScores(request)
        keys   == {i \in 1..Len(product_patterns) : scores[i] > 0}
    IN  IF keys = {} THEN NoneAttr
        ELSE LET best == CHOOSE i \in keys :
                            \A j \in keys : scores[j] < scores[i]
                                            \/ (scores[j] = scores[i] /\ i >= j)
             IN  Attr(product_patterns[best].key, scores[best])

\* max(scores, key=scores.get): the first key, in insertion order, whose
\* value is the largest.
_detect_product(request) ==
    LET scores == ProductScores(request)
        keys   == {i \in 1..Len(product_patterns) : scores[i] > 0}
    IN  IF keys = {} THEN NoneAttr
        ELSE LET best == CHOOSE i \in keys :
                            \A j \in keys : scores[j] < scores[i]
                                            \/ (scores[j] = scores[i] /\ i <= j)
             IN  Attr(product_patterns[best].key, scores[best])

\* The first entry of a keyword table, in table order, one of whose patterns
\* is in the request; None when there is none.
FirstMatch(table, request, confidence) ==
    LET hits == {i \in 1..Len(table) : AnyIn(table[i].patterns, request)}
    IN  IF hits = {} THEN NoneAttr
        ELSE Attr(table[CHOOSE i \in hits : \A j \in hits : i <= j].key, confidence)

_detect_background(request) == FirstMatch(background_patterns, request, BackgroundPoints)

_detect_layout(request) == FirstMatch(layout_patterns, request, LayoutPoints)

_detect_ciq_color_type(request) == FirstMatch(ciq_color_type_patterns, request, ColorTypePoints)

detect_attributes(request) ==
    LET request_lower == Lower(request)
        product        == _detect_product(request_lower)
        background     == _detect_background(request_lower)
        layout         == _detect_layout(request_lower)
        ciq_color_type == _detect_ciq_color_type(request_lower)
    IN  [product          |-> product,
         background       |-> background,
         layout           |-> layout,
         ciq_color_type   |-> ciq_color_type,
         total_confidence |->
             (IF product.set THEN product.confidence ELSE 0)
             + (IF background.set THEN BackgroundPoints ELSE 0)
             + (IF layout.set THEN layout.confidence ELSE 0)
             + (IF ciq_color_type.set THEN ciq_color_type.confidence ELSE 0)]

(***************************************************************************)
(* The requests: a product phrase, a layout / variant phrase and a         *)
(* background phrase, and the optional background argument.                *)
(***************************************************************************)

ProductPhrases ==
    {"CIQ logo", "Fuzzball logo", "fuzzball fuzz ball workload hpc logo", "RLC-AI logo"}

LayoutPhrases == {"", " symbol", " horizontal", " vertical", " standard", " green", " hero"}

BackgroundPhrases == {"", " for light background", " on black"}

\* Texts that name no product, a product the inventories hold no
\* collection for, and a text on which two products reach the same score.
OtherRequests ==
    {"", "logo for dark background", "Warewulf logo", "rocky linux commercial ai logo"}

Requests ==
    {p \o l \o b : p \in ProductPhrases, l \in LayoutPhrases, b \in BackgroundPhrases}
    \cup OtherRequests

\* background: Optional[str] = None; "" stands for None (both are falsy).
NoBackground == ""
BackgroundArgs == {NoBackground, "light", "dark"}

\* The request text get_brand_asset matches: the background argument, when
\* given, is appended to the text.
RequestText(request, background) ==
    IF background # NoBackground
    THEN request \o " for " \o background \o " background"
    ELSE request

RequestTexts == {RequestText(r, b) : r \in Requests, b \in BackgroundArgs}

\* detect_attributes is a pure function of the text: its value on the texts
\* of the model, computed once.
DetectedAttributes == [t \in RequestTexts |-> detect_attributes(t)]

Detect(request) ==
    IF request \in RequestTexts THEN DetectedAttributes[request] ELSE detect_attributes(request)

(***************************************************************************)
(* Asset records and the inventory                                         *)
(***************************************************************************)

\* dict.get(key, default) on an asset record.
Get(asset, key, default) == IF key \in DOMAIN asset THEN asset[key] ELSE default

\* sep.join(parts)
RECURSIVE Join(_, _)
Join(parts, sep) ==
    IF Len(parts) = 0 THEN ""
    ELSE IF Len(parts) = 1 THEN parts[1]
    ELSE parts[1] \o sep \o Join(Tail(parts), sep)

\* AssetMatcher.__init__: product_info, keyed by product id.
product_info == <<
    [id |-> "ciq",          name |-> "CIQ",          structure_type |-> "company", asset_key |-> "logos"],
    [id |-> "fuzzball",     name |-> "Fuzzball",     structure_type |-> "product", asset_key |-> "fuzzball_logos"],
    [id |-> "warewulf",     name |-> "Warewulf",     structure_type |-> "product", asset_key |-> "warewulf_pro_logos"],
    [id |-> "apptainer",    name |-> "Apptainer",    structure_type |-> "product", asset_key |-> "apptainer_logos"],
    [id |-> "ascender",     name |-> "Ascender",     structure_type |-> "product", asset_key |-> "ascender_pro_logos"],
    [id |-> "bridge",       name |-> "Bridge",       structure_type |-> "product", asset_key |-> "bridge_logos"],
    [id |-> "rlc",          name |-> "RLC",          structure_type |-> "product", asset_key |-> "rlc_logos"],
    [id |-> "rlc-ai",       name |-> "RLC-AI",       structure_type |-> "product", asset_key |-> "rlc_ai_logos"],
    [id |-> "rlc-hardened", name |-> "RLC-Hardened", structure_type |-> "product", asset_key |-> "rlc_hardened_logos"],
    [id |-> "rlc-lts",      name |-> "RLC-LTS",      structure_type |-> "product", asset_key |-> "rlc_lts_logos"] >>

ProductInfo(product_id) ==
    product_info[CHOOSE i \in 1..Len(product_info) : product_info[i].id = product_id]

NoProduct == [id |-> "", name |-> "", structure_type |-> "", asset_key |-> ""]

\* asset_data.get(key, {}) on the loaded inventory: the collection stored under
\* the key (a sequence of asset records, in the dict's order), {} when absent.
DictGet(data, key) ==
    LET hits == {i \in 1..Len(data.entries) : data.entries[i].key = key}
    IN  IF hits = {} THEN <<>> ELSE data.entries[CHOOSE i \in hits : TRUE].assets

(***************************************************************************)
(* AssetMatcher                                                            *)
(***************************************************************************)

\* Mutant of _assess_confidence_level: MEDIUM starts above what a product and
\* a background add up to.
AssessWithMediumAbove70(total_confidence) ==
    IF total_confidence >= HighThreshold THEN "high"
    ELSE IF total_confidence > 70 THEN "medium"
    ELSE "low"

_assess_confidence_level(total_confidence) ==
    IF total_confidence >= HighThreshold THEN "high"
    ELSE IF total_confidence >= MediumThreshold THEN "medium"
    ELSE "low"

\* Mutant of _apply_background_filter: the filter lets every asset through.
BackgroundFilterOff(assets, attributes) == assets

\* RULE #1: the background filter.
_apply_background_filter(assets, attributes) ==
    IF ~attributes.background.set THEN assets
    ELSE SelectSeq(assets,
             LAMBDA asset : Lower(Get(asset, "background", "")) = attributes.background.value)

\* Mutant of SortByScore: equal scores come out in the reverse of the input
\* order (an ascending sort that is reversed afterwards).
SortAscendingReversed(scored) ==
    LET Before(i) == {j \in 1..Len(scored) :
                         \/ scored[j].score > scored[i].score
                         \/ (scored[j].score = scored[i].score /\ j > i)}
    IN  [k \in 1..Len(scored) |->
            scored[CHOOSE i \in 1..Len(scored) : Cardinality(Before(i)) = k - 1]]

\* sorted(scored, key=lambda x: x[0], reverse=True): descending score, equal
\* scores in the order of the input (the sort is stable).
SortByScore(scored) ==
    LET Before(i) == {j \in 1..Len(scored) :
                         \/ scored[j].score > scored[i].score
                         \/ (scored[j].score = scored[i].score /\ j < i)}
    IN  [k \in 1..Len(scored) |->
            scored[CHOOSE i \in 1..Len(scored) : Cardinality(Before(i)) = k - 1]]

\* One scored entry (score, asset, reasoning); keep is FALSE for an asset the
\* loop skips or whose score is 0.
Scored(keep, score, asset, reasons) ==
    [keep |-> keep /\ score > 0, score |-> score, asset |-> asset,
     reasoning |-> Join(reasons, " + ")]

Ranked(entries) ==
    LET kept == SelectSeq(entries, LAMBDA e : e.keep)
    IN  SortByScore([k \in 1..Len(kept) |->
            [score |-> kept[k].score, asset |-> kept[k].asset, reasoning |-> kept[k].reasoning]])

HeroTerms == <<"hero", "presentation", "primary", "large display", "marketing">>

\* "perfect background match", scored on every asset once a background is detected.
BackgroundScore(bg) == IF bg.set THEN 80 ELSE 0
BackgroundReason(bg) ==
    IF bg.set THEN <<"perfect " \o bg.value \o " background match">> ELSE <<>>

\* Mutant of ColorTypeScore: the exact match earns less than the bonus for
\* standard applications.
ColorTypeScoreWeakMatch(target, asset_color_type) ==
    IF target.set
    THEN (IF target.value = asset_color_type THEN 10 ELSE 0)
    ELSE IF asset_color_type = "1color_neutral" THEN 90
    ELSE IF asset_color_type = "2color" THEN 70
    ELSE IF asset_color_type = "1color_green" THEN 60
    ELSE 0

\* CIQ color type scoring: the exact match, or the default preferences.
ColorTypeScore(target, asset_color_type) ==
    IF target.set
    THEN (IF target.value = asset_color_type THEN 100 ELSE 0)
    ELSE IF asset_color_type = "1color_neutral" THEN 90
    ELSE IF asset_color_type = "2color" THEN 70
    ELSE IF asset_color_type = "1color_green" THEN 60
    ELSE 0

ColorTypeReason(target, asset_color_type) ==
    IF target.set
    THEN (IF target.value = asset_color_type
          THEN <<"exact " \o Replace(target.value, "_", " ") \o " match">> ELSE <<>>)
    ELSE IF asset_color_type = "1color_neutral" THEN <<"standard CIQ company logo">>
    ELSE IF asset_color_type = "2color" THEN <<"hero CIQ company logo">>
    ELSE IF asset_color_type = "1color_green" THEN <<"standard+ green version">>
    ELSE <<>>

\* Hero against standard context.
ContextScore(is_hero_context, asset_color_type) ==
    IF is_hero_context /\ asset_color_type = "2color" THEN 20
    ELSE IF ~is_hero_context /\ asset_color_type = "1color_neutral" THEN 20
    ELSE 0

ContextReason(is_hero_context, asset_color_type) ==
    IF is_hero_context /\ asset_color_type = "2color" THEN <<"perfect for hero context">>
    ELSE IF ~is_hero_context /\ asset_color_type = "1color_neutral"
         THEN <<"ideal for standard applications">>
    ELSE <<>>

\* attributes.get('original_request', '').lower() searched for the hero terms.
IsHeroContext(attributes) == AnyIn(HeroTerms, Lower(Get(attributes, "original_request", "")))

CiqEntry(asset, attributes, asset_color_type, is_hero_context) ==
    Scored(TRUE,
           BackgroundScore(attributes.background)
           + ColorTypeScore(attributes.ciq_color_type, asset_color_type)
           + ContextScore(is_hero_context, asset_color_type),
           asset,
           BackgroundReason(attributes.background)
           \o ColorTypeReason(attributes.ciq_color_type, asset_color_type)
           \o ContextReason(is_hero_context, asset_color_type))

\* The body of the loop of _score_ciq_assets for one asset.
ScoreCiqAsset(asset, attributes) ==
    CiqEntry(asset, attributes, Get(asset, "color_type", ""), IsHeroContext(attributes))

_score_ciq_assets(assets, attributes) ==
    Ranked([k \in 1..Len(assets) |-> ScoreCiqAsset(assets[k], attributes)])

\* vertical_requested
VerticalRequested(layout) == layout.set /\ layout.value = "vertical"

\* Mutant of SkipVertical: the `not` is dropped.
SkipVerticalWhenRequested(asset_layout, vertical_requested) ==
    Contains("vertical", asset_layout) /\ vertical_requested

\* `'vertical' in asset_layout and not vertical_requested`: the asset is skipped.
SkipVertical(asset_layout, vertical_requested) ==
    Contains("vertical", asset_layout) /\ ~vertical_requested

\* The default layout preference, when no layout was requested.
DefaultLayoutScore(asset_layout) ==
    IF Contains("horizontal", asset_layout) THEN 80
    ELSE IF Contains("icon", asset_layout) THEN 60
    ELSE 0

\* Layout matching for products.
LayoutScore(layout, asset_layout) ==
    IF layout.set /\ layout.value # ""
    THEN (IF Contains(layout.value, asset_layout) THEN 100 ELSE 0)
    ELSE DefaultLayoutScore(asset_layout)

LayoutReason(layout, asset_layout) ==
    IF layout.set /\ layout.value # ""
    THEN (IF Contains(layout.value, asset_layout)
          THEN <<"exact " \o layout.value \o " match">> ELSE <<>>)
    ELSE IF Contains("horizontal", asset_layout)
         THEN <<"default horizontal layout (best brand recognition)">>
    ELSE IF Contains("icon", asset_layout) THEN <<"icon option">>
    ELSE <<>>

\* Color correctness bonus.
ContrastScore(bg, asset_color) ==
    IF bg.set /\ bg.value = "light" /\ asset_color = "black" THEN 20
    ELSE IF bg.set /\ bg.value = "dark" /\ asset_color = "white" THEN 20
    ELSE 0

ContrastReason(bg, asset_color) ==
    IF bg.set /\ bg.value = "light" /\ asset_color = "black"
    THEN <<"proper dark-on-light contrast">>
    ELSE IF bg.set /\ bg.value = "dark" /\ asset_color = "white"
         THEN <<"proper light-on-dark contrast">>
    ELSE <<>>

ProductEntry(asset, attributes, asset_layout, asset_color) ==
    Scored(~SkipVertical(asset_layout, VerticalRequested(attributes.layout)),
           BackgroundScore(attributes.background)
           + LayoutScore(attributes.layout, asset_layout)
           + ContrastScore(attributes.background, asset_color),
           asset,
           BackgroundReason(attributes.background)
           \o LayoutReason(attributes.layout, asset_layout)
           \o ContrastReason(attributes.background, asset_color))

\* The body of the loop of _score_product_assets for one asset.
ScoreProductAsset(asset, attributes) ==
    ProductEntry(asset, attributes, Lower(Get(asset, "layout", "")), Lower(Get(asset, "color", "")))

_score_product_assets(assets, attributes) ==
    Ranked([k \in 1..Len(assets) |-> ScoreProductAsset(assets[k], attributes)])

\* The dict match_assets returns.  tag is "help", "error" or "success"; "raise"
\* stands for the exception that leaves match_assets (asset_data has no .get).
MatchResult(tag, error, product, attributes, level, scored, filtered, original) ==
    [tag |-> tag, error |-> error, product |-> product, attributes |-> attributes,
     confidence_level |-> level, scored_assets |-> scored,
     filtered_count |-> filtered, original_count |-> original]

\* RULE #2: asset-type-specific scoring.
ScoreAssets(product_id, filtered_assets, attributes) ==
    IF product_id = "ciq"
    THEN _score_ciq_assets(filtered_assets, attributes)
    ELSE _score_product_assets(filtered_assets, attributes)

\* Mutant of MatchFiltered: when the filter leaves nothing, the unfiltered
\* collection is scored.
MatchFilteredFallback(attributes, info, level, product_assets, filtered_assets) ==
    IF Len(filtered_assets) = 0
    THEN MatchResult("success", "", info, attributes, level,
                     ScoreAssets(attributes.product.value, product_assets, attributes),
                     Len(product_assets), Len(product_assets))
    ELSE MatchResult("success", "", info, attributes, level,
                     ScoreAssets(attributes.product.value, filtered_assets, attributes),
                     Len(filtered_assets), Len(product_assets))

\* match_assets from the background filter on.
MatchFiltered(attributes, info, level, product_assets, filtered_assets) ==
    IF Len(filtered_assets) = 0
    THEN MatchResult("error", "No background-compatible assets found for " \o info.name,
                     info, attributes, level, <<>>, 0, Len(product_assets))
    ELSE MatchResult("success", "", info, attributes, level,
                     ScoreAssets(attributes.product.value, filtered_assets, attributes),
                     Len(filtered_assets), Len(product_assets))

\* match_assets from the lookup of the product's collection on.
MatchCollection(attributes, info, level, product_assets) ==
    IF Len(product_assets) = 0
    THEN MatchResult("error", "No assets found for " \o info.name,
                     info, attributes, level, <<>>, 0, 0)
    ELSE MatchFiltered(attributes, info, level, product_assets,
                       _apply_background_filter(product_assets, attributes))

\* Mutant of MatchProduct: every product is served from the fuzzball
\* collection.
MatchProductFromFuzzball(data, attributes, info, level) ==
    IF data.kind # "dict"
    THEN MatchResult("raise", "AttributeError", info, attributes, level, <<>>, 0, 0)
    ELSE MatchCollection(attributes, info, level, DictGet(data, "fuzzball_logos"))

\* match_assets once a product is detected.
MatchProduct(data, attributes, info, level) ==
    IF data.kind # "dict"
    THEN MatchResult("raise", "AttributeError", info, attributes, level, <<>>, 0, 0)
    ELSE MatchCollection(attributes, info, level, DictGet(data, info.asset_key))

MatchAttributes(data, attributes) ==
    IF ~attributes.product.set
    THEN MatchResult("help", "", NoProduct, attributes, "", <<>>, 0, 0)
    ELSE MatchProduct(data, attributes, ProductInfo(attributes.product.value),
                      _assess_confidence_level(attributes.total_confidence))

match_assets(data, request) == MatchAttributes(data, Detect(request))

(***************************************************************************)
(* ResponseFormatter.  A response is the text the tool returns, kept by its *)
(* template (kind), the assets whose download URL it prints (shown, in     *)
(* the order printed) and the message of an error; outcome "raise" is an   *)
(* exception that leaves the tool, with its class in message.  total and   *)
(* listed are the figures list_all_assets prints.                          *)
(***************************************************************************)

Response(outcome, kind, message, shown) ==
    [outcome |-> outcome, kind |-> kind, message |-> message, shown |-> shown,
     total |-> 0, listed |-> <<>>]

Return(kind, message, shown) == Response("return", kind, message, shown)

Raise(exception) == Response("raise", "", exception, <<>>)

\* seq[:n]
Take(seq, n) == SubSeq(seq, 1, Min(n, Len(seq)))

\* asset['url'] is evaluated for every asset the template prints.
AllHaveUrl(scored) == \A k \in 1..Len(scored) : "url" \in DOMAIN scored[k].asset

AssetsOf(scored) == [k \in 1..Len(scored) |-> scored[k].asset]

_format_high_confidence(result, is_ciq) ==
    IF Len(result.scored_assets) = 0 THEN Raise("IndexError")
    ELSE LET best_asset == result.scored_assets[1]
         IN  IF "url" \notin DOMAIN best_asset.asset THEN Raise("KeyError")
             ELSE Return("high", "", <<best_asset.asset>>)

_format_medium_confidence(result, is_ciq) ==
    LET scored_assets == Take(result.scored_assets, 3)
    IN  IF Len(scored_assets) = 0 THEN Raise("IndexError")
        ELSE IF ~AllHaveUrl(scored_assets) THEN Raise("KeyError")
        ELSE Return("medium", "", AssetsOf(scored_assets))

\* Mutant of _format_low_confidence: the layout / variant question is tried
\* before the background question.
FormatLowLayoutFirst(result, is_ciq) ==
    LET attributes == result.attributes
    IN  IF is_ciq /\ ~attributes.ciq_color_type.set THEN Return("ask_variant", "", <<>>)
        ELSE IF ~is_ciq /\ ~attributes.layout.set THEN Return("ask_layout", "", <<>>)
        ELSE IF ~attributes.background.set THEN Return("ask_background", "", <<>>)
        ELSE _format_medium_confidence(result, is_ciq)

_format_low_confidence(result, is_ciq) ==
    LET attributes == result.attributes
    IN  IF ~attributes.background.set THEN Return("ask_background", "", <<>>)
        ELSE IF is_ciq /\ ~attributes.ciq_color_type.set THEN Return("ask_variant", "", <<>>)
        ELSE IF ~is_ciq /\ ~attributes.layout.set THEN Return("ask_layout", "", <<>>)
        ELSE _format_medium_confidence(result, is_ciq)

format_response(match_result) ==
    IF match_result.tag = "help" THEN Return("help", "", <<>>)
    ELSE IF match_result.tag = "error" THEN Return("error", match_result.error, <<>>)
    ELSE
    LET product_id       == Lower(match_result.product.name)
        confidence_level == match_result.confidence_level
    IN  IF confidence_level = "high"
        THEN _format_high_confidence(match_result, product_id = "ciq")
        ELSE IF confidence_level = "medium"
        THEN _format_medium_confidence(match_result, product_id = "ciq")
        ELSE _format_low_confidence(match_result, product_id = "ciq")

(***************************************************************************)
(* The inventory source.  An HTTP GET ends in a timeout, a connection      *)
(* error, a non-200 status, a body that is no JSON, or a JSON value; the   *)
(* JSON value is an inventory (a dict of collections), or some other JSON  *)
(* value (a list, a number, null).                                         *)
(***************************************************************************)

MaxAssets == 2

UrlBase == "https://raw.githubusercontent.com/b-ciq/brand-assets/main/"

Layouts == {"horizontal", "vertical", "icon"}
Backgrounds == {"light", "dark"}
ColorTypes == {"1color_neutral", "1color_green", "2color"}

\* The shapes of the asset records of a product collection: every layout in
\* black for light and in white for dark backgrounds, as the metadata
\* generators emit them, and two records that break that correlation (color
\* and background are independent fields of the inventory).
ProductShapes ==
    {[layout |-> l, color |-> "black", background |-> "light"] : l \in Layouts}
    \cup {[layout |-> l, color |-> "white", background |-> "dark"] : l \in Layouts}
    \cup {[layout |-> l, color |-> "black", background |-> "dark"] : l \in {"horizontal", "icon"}}

\* The shapes of the records of the company collection.
CiqShapes == [color_type : ColorTypes, background : Backgrounds]

ProductAsset(dir, shape) ==
    [layout |-> shape.layout, color |-> shape.color, background |-> shape.background,
     url |-> UrlBase \o dir \o "/" \o shape.layout \o "_" \o shape.color
             \o "_" \o shape.background \o ".png"]

CiqAsset(shape) ==
    [color_type |-> shape.color_type, color_mode |-> shape.background,
     background |-> shape.background,
     url |-> UrlBase \o "CIQ-logos/" \o shape.color_type \o "_" \o shape.background \o ".png"]

\* The sequences of at most n distinct elements of S: a dict has no two
\* entries under one key.
DistinctSeqs(S, n) ==
    UNION {{q \in [1..k -> S] : \A i, j \in 1..k : i # j => q[i] # q[j]} : k \in 0..n}

ProductCollection(dir, shapes) == [k \in 1..Len(shapes) |-> ProductAsset(dir, shapes[k])]
CiqCollection(shapes) == [k \in 1..Len(shapes) |-> CiqAsset(shapes[k])]

\* An inventory: the reserved key, the company collection and the
\* collections of two products (the other products have none).
Inventory(ciqShapes, productShapes) ==
    [kind |-> "dict",
     entries |-> <<
        [key |-> "brand_guidelines", assets |-> <<>>],
        [key |-> "logos",            assets |-> CiqCollection(ciqShapes)],
        [key |-> "fuzzball_logos",   assets |-> ProductCollection("Fuzzball-logos", productShapes)],
        [key |-> "rlc_ai_logos",     assets |-> ProductCollection("RLC-AI-logos", productShapes)] >>]

DefaultCiqShapes ==
    <<[color_type |-> "1color_neutral", background |-> "light"],
      [color_type |-> "2color", background |-> "dark"]>>

DefaultProductShapes ==
    <<[layout |-> "horizontal", color |-> "black", background |-> "light"],
      [layout |-> "icon", color |-> "white", background |-> "dark"]>>

\* A company collection and a product collection that hold every shape: more
\* than three assets for each background, and assets that score alike in an
\* order of their own (the dark icon before the dark horizontal logos).
FullCiqShapes ==
    <<[color_type |-> "1color_green", background |-> "light"],
      [color_type |-> "2color", background |-> "light"],
      [color_type |-> "1color_neutral", background |-> "light"],
      [color_type |-> "2color", background |-> "dark"],
      [color_type |-> "1color_green", background |-> "dark"],
      [color_type |-> "1color_neutral", background |-> "dark"]>>

FullProductShapes ==
    <<[layout |-> "icon", color |-> "white", background |-> "dark"],
      [layout |-> "horizontal", color |-> "black", background |-> "dark"],
      [layout |-> "horizontal", color |-> "white", background |-> "dark"],
      [layout |-> "icon", color |-> "black", background |-> "dark"],
      [layout |-> "vertical", color |-> "white", background |-> "dark"],
      [layout |-> "icon", color |-> "black", background |-> "light"],
      [layout |-> "horizontal", color |-> "black", background |-> "light"],
      [layout |-> "vertical", color |-> "black", background |-> "light"]>>

\* An asset record that lacks the url field.
WithoutUrl(asset) == [k \in DOMAIN asset \ {"url"} |-> asset[k]]

\* The inventories of the model: the company collection varies, or the
\* product collections vary, or the first record of the fuzzball collection
\* lacks its url next to well-formed records for the same background, or
\* every collection is full.
Inventories ==
    {Inventory(FullCiqShapes, FullProductShapes)}
    \cup {Inventory(c, DefaultProductShapes) : c \in DistinctSeqs(CiqShapes, MaxAssets)}
    \cup {Inventory(DefaultCiqShapes, p) : p \in DistinctSeqs(ProductShapes, MaxAssets)}
    \cup {[Inventory(DefaultCiqShapes, p) EXCEPT !.entries[3].assets[1] = WithoutUrl(@)] :
             p \in {q \in DistinctSeqs({x \in ProductShapes : x.background = "light"}, MaxAssets) :
                       Len(q) >= 2}}

None == [kind |-> "None", entries |-> <<>>]
JsonNull == None
JsonList == [kind |-> "list", entries |-> <<>>]
JsonNumber == [kind |-> "number", entries |-> <<>>]

\* How a fetch fails: requests.get, raise_for_status or response.json raises.
FailedFetches == {"timeout", "connection_error", "http_error", "bad_json"}

FetchOutcomes ==
    [status : {"timeout", "connection_error", "http_error", "bad_json"}, body : {None}]
    \cup [status : {"ok"}, body : Inventories \cup {JsonList, JsonNumber, JsonNull}]

\* Mutant of load_asset_data: the except branch returns True.
LoadReportsSuccess(data, fetch) ==
    IF fetch.status # "ok" THEN [ok |-> TRUE, asset_data |-> data]
    ELSE IF fetch.body.kind \in {"number", "None"} THEN [ok |-> TRUE, asset_data |-> fetch.body]
    ELSE [ok |-> TRUE, asset_data |-> fetch.body]

\* load_asset_data: the value it returns and the value it leaves in the
\* module global asset_data.  requests.get, raise_for_status and
\* response.json raise on a failed fetch, before the assignment; len() raises
\* TypeError on a number or None, after it.
load_asset_data(data, fetch) ==
    IF fetch.status # "ok" THEN [ok |-> FALSE, asset_data |-> data]
    ELSE IF fetch.body.kind \in {"number", "None"} THEN [ok |-> FALSE, asset_data |-> fetch.body]
    ELSE [ok |-> TRUE, asset_data |-> fetch.body]

(***************************************************************************)
(* list_all_assets                                                         *)
(***************************************************************************)

\* str.upper()
RECURSIVE Upper(_)
Upper(s) == IF Len(s) = 0 THEN "" ELSE UpperChar(CharAt(s, 1)) \o Upper(SubSeq(s, 2, Len(s)))

\* The display name of a category key.
DisplayName(category_key) ==
    LET product_name == Replace(Replace(category_key, "_logos", ""), "_", " ")
    IN  IF product_name = "warewulf pro" THEN "Warewulf Pro"
        ELSE IF product_name = "ascender pro" THEN "Ascender Pro"
        ELSE IF StartsWith(product_name, "rlc") THEN Replace(Upper(product_name), "RLC ", "RLC-")
        ELSE Title(product_name)

\* product_counts[name] = count on a dict kept as a sequence of entries: an
\* existing key keeps its place and takes the new value.
DictSet(counts, name, count) ==
    IF \E i \in 1..Len(counts) : counts[i].product = name
    THEN [i \in 1..Len(counts) |->
             IF counts[i].product = name THEN [product |-> name, count |-> count] ELSE counts[i]]
    ELSE Append(counts, [product |-> name, count |-> count])

\* The loop over asset_data.items(): product_counts and total_assets after
\* the first n entries.
RECURSIVE CountAssets(_, _)
CountAssets(entries, n) ==
    IF n = 0 THEN [product_counts |-> <<>>, total_assets |-> 0]
    ELSE LET before == CountAssets(entries, n - 1)
             entry  == entries[n]
         IN  IF entry.key = "brand_guidelines" THEN before
             ELSE [product_counts |-> DictSet(before.product_counts,
                                              DisplayName(entry.key), Len(entry.assets)),
                   total_assets   |-> before.total_assets + Len(entry.assets)]

\* The lines "• **product** - count variants", in the order printed: the four
\* groups, each in the order of product_counts.
ListedLines(product_counts) ==
    SelectSeq(product_counts, LAMBDA e : e.product \in {"CIQ", "CIQ-Support"})
    \o SelectSeq(product_counts, LAMBDA e : e.product \in {"Warewulf Pro", "Ascender Pro", "Apptainer"})
    \o SelectSeq(product_counts, LAMBDA e : e.product \in {"Bridge", "Fuzzball"})
    \o SelectSeq(product_counts, LAMBDA e : StartsWith(e.product, "RLC"))

\* The body of list_all_assets once the data is loaded.
ListAssets(data) ==
    IF data.kind # "dict" THEN Raise("AttributeError")
    ELSE LET counted == CountAssets(data.entries, Len(data.entries))
         IN  [Return("list", "", <<>>) EXCEPT
                 !.total = counted.total_assets,
                 !.listed = ListedLines(counted.product_counts)]

(***************************************************************************)
(* ciq_brand_assets_fastmcp: the tools                                     *)
(***************************************************************************)

\* The tools in the order their @mcp.tool() decorators run; a tool is
\* registered under the name of its function.
FastmcpTools == <<"get_brand_asset", "list_all_assets", "brand_guidelines">>

\* test_server.py: the tools it looks up in mcp.get_tools().
expected_tools == <<"get_brand_asset", "list_all_assets", "get_brand_guidelines">>

determine_logo_type(request) ==
    IF AnyIn(<<"rlc", "rlc hardened", "rlc ai", "rocky linux", "rocky linux from ciq",
               "warewulf", "fuzzball", "apptainer", "product logo", "application logo">>,
             Lower(request))
    THEN "product"
    ELSE IF AnyIn(<<"ciq logo", "company logo", "our logo", "main logo", "ciq brand",
                    "corporate logo", "brand logo">>, Lower(request))
    THEN "ciq_main"
    ELSE "unclear"

\* parse_user_response on the lower-cased text: (element_type, background),
\* with "" for None (the caller only tests their truth value).
parse_user_response(response) ==
    [element_type |->
        IF AnyIn(<<"star", "hero", "main", "primary", "focus">>, response) THEN "main"
        ELSE IF AnyIn(<<"support", "secondary", "alongside", "with">>, response)
        THEN "supporting" ELSE "",
     background |->
        IF Contains("light", response) THEN "light"
        ELSE IF Contains("dark", response) THEN "dark" ELSE ""]

\* get_smart_recommendation: the 'key' of the recommendation, with context
\* the lower-cased design context.
get_smart_recommendation(background, element_type, context) ==
    IF element_type = "main" THEN "2color-" \o background
    ELSE IF element_type = "supporting"
              /\ ~AnyIn(<<"colorful", "busy", "marketing", "promotional", "lots of color",
                          "vibrant", "bright">>, context)
              /\ AnyIn(<<"minimal", "clean", "simple", "black and white", "neutral",
                         "monochrome">>, context)
              /\ AnyIn(<<"ad", "advertisement", "advertising", "promotion">>, context)
    THEN "green-" \o background
    ELSE "1color-" \o background

\* The values (element_type, background) the body goes on with: the parsed
\* ones when an argument is missing and the text gives both.
ResolvedArguments(c, parsed) ==
    IF (c.background = "" \/ c.element_type = "")
       /\ parsed.element_type # "" /\ parsed.background # ""
    THEN parsed
    ELSE [element_type |-> c.element_type, background |-> c.background]

\* asset_data['logos'].get(key) and the answer built from it.
DeliverLogo(logos, key) ==
    LET hits == {i \in 1..Len(logos) : logos[i].key = key}
    IN  IF hits = {} THEN Return("not_found", "", <<>>)
        ELSE Return("asset", "", <<logos[CHOOSE i \in hits : TRUE].asset>>)

\* The body of the fastmcp get_brand_asset once asset_data is not None.
RecommendLogo(data, logo_type, resolved, design_context) ==
    IF logo_type = "product" THEN Return("product_unsupported", "", <<>>)
    ELSE IF logo_type = "unclear" THEN Return("which_logo", "", <<>>)
    ELSE IF resolved.background = "" \/ resolved.element_type = ""
    THEN Return("ask_element_background", "", <<>>)
    ELSE IF data.kind # "dict" THEN Raise("TypeError")
    ELSE IF \A i \in 1..Len(data.entries) : data.entries[i].key # "logos"
    THEN Raise("KeyError")
    ELSE DeliverLogo(DictGet(data, "logos"),
                     get_smart_recommendation(resolved.background, resolved.element_type,
                                              Lower(design_context)))

\* The body of a fastmcp tool once asset_data is not None.
ToolBody(data, c) ==
    IF c.tool = "get_brand_asset"
    THEN RecommendLogo(data, determine_logo_type(c.request),
                       ResolvedArguments(c, parse_user_response(Lower(c.request))),
                       c.design_context)
    ELSE IF c.tool = "list_all_assets"
    THEN IF data.kind # "dict" THEN Raise("TypeError")
         ELSE IF \A i \in 1..Len(data.entries) : data.entries[i].key # "logos"
         THEN Raise("KeyError")
         ELSE Return("list", "",
                     AssetsOf(SelectSeq(DictGet(data, "logos"),
                                        LAMBDA e : Contains("light", e.key)))
                     \o AssetsOf(SelectSeq(DictGet(data, "logos"),
                                           LAMBDA e : ~Contains("light", e.key))))
    ELSE IF data.kind # "dict" THEN Raise("AttributeError")
         ELSE Return("guidelines", "", <<>>)

\* The fastmcp load_asset_data: every parsed body is kept and reported as a
\* success.
FastmcpLoad(data, fetch) ==
    IF fetch.status # "ok" THEN [ok |-> FALSE, asset_data |-> data]
    ELSE [ok |-> TRUE, asset_data |-> fetch.body]

\* The inventory this server reads: 'logos' maps keys such as '2color-light'
\* to asset records.
FastmcpInventory(keys) ==
    [kind |-> "dict",
     entries |-> <<
        [key |-> "brand_guidelines", assets |-> <<>>],
        [key |-> "logos",
         assets |-> [k \in 1..Len(keys) |->
                        [key |-> keys[k],
                         asset |-> [filename |-> "CIQ-" \o keys[k] \o ".png",
                                    description |-> "CIQ " \o keys[k],
                                    url |-> UrlBase \o "CIQ-logos/CIQ-" \o keys[k] \o ".png"]]]] >>]

FastmcpFetchOutcomes ==
    [status : FailedFetches, body : {None}]
    \cup [status : {"ok"},
          body : {FastmcpInventory(<<"1color-light", "1color-dark", "2color-light",
                                     "2color-dark", "green-light", "green-dark">>),
                  FastmcpInventory(<<"2color-dark", "1color-light">>),
                  [kind |-> "dict", entries |-> <<[key |-> "brand_guidelines", assets |-> <<>>]>>],
                  JsonList, JsonNull}]

\* The tool calls of the model: one for every branch of the three bodies.
FastmcpCalls ==
    {[tool |-> "get_brand_asset", request |-> r[1], background |-> r[2],
      element_type |-> r[3], design_context |-> r[4]] :
        r \in {<<"Fuzzball logo", "", "", "">>,
               <<"I need a logo", "", "", "">>,
               <<"CIQ logo", "", "", "">>,
               <<"CIQ logo, the star, dark", "", "", "">>,
               <<"our logo", "light", "supporting", "minimal magazine ad">>,
               <<"our logo", "dark", "supporting", "colorful flyer">>}}
    \cup {[tool |-> t, request |-> "", background |-> "", element_type |-> "",
           design_context |-> ""] : t \in {"list_all_assets", "brand_guidelines"}}

\* The number of tool calls the event loop runs at a time.
MaxTasks == 2
Tasks == 1..MaxTasks

NoToolCall ==
    [tool |-> "", request |-> "", background |-> "", element_type |-> "", design_context |-> ""]

(***************************************************************************)
(* server.py: SemanticAssetMatcher.  Scores are kept in hundredths and the *)
(* request confidence in 1/300 (product confidence is len/10, an intent    *)
(* score a multiple of 1/15 that counts half, the boost a factor 1.3).     *)
(***************************************************************************)

server_product_patterns ==
    << [key |-> "ciq",          patterns |-> <<"ciq", "company", "brand", "main">>],
       [key |-> "fuzzball",     patterns |-> <<"fuzzball", "fuzz ball", "workload", "hpc">>],
       [key |-> "warewulf",     patterns |-> <<"warewulf", "cluster", "provisioning">>],
       [key |-> "apptainer",    patterns |-> <<"apptainer", "container", "scientific">>],
       [key |-> "ascender",     patterns |-> <<"ascender", "automation", "ansible">>],
       [key |-> "bridge",       patterns |-> <<"bridge", "centos", "migration">>],
       [key |-> "support",      patterns |-> <<"support", "ciq support">>],
       [key |-> "rlc",          patterns |-> <<"rlc", "rocky linux commercial", "rocky linux">>],
       [key |-> "rlc-ai",       patterns |-> <<"rlc-ai", "rlc ai", "rocky linux ai">>],
       [key |-> "rlc-hardened", patterns |-> <<"rlc-hardened", "rlc hardened", "rocky linux hardened">>],
       [key |-> "rlc-lts",      patterns |-> <<"rlc-lts", "rlc lts", "rocky linux lts",
                                               "rocky linux commercial lts", "long term support",
                                               "long-term support", "lts">>] >>

server_background_patterns ==
    << [key |-> "light", patterns |-> <<"light", "white", "light background">>],
       [key |-> "dark",  patterns |-> <<"dark", "black", "dark background">>] >>

server_layout_patterns ==
    << [key |-> "icon",       patterns |-> <<"symbol", "icon", "favicon", "app icon">>],
       [key |-> "horizontal", patterns |-> <<"horizontal", "wide", "header", "lockup">>],
       [key |-> "vertical",   patterns |-> <<"vertical", "tall", "stacked">>],
       [key |-> "onecolor",   patterns |-> <<"1-color", "1 color", "one color", "onecolor">>],
       [key |-> "twocolor",   patterns |-> <<"2-color", "2 color", "two color", "twocolor">>],
       [key |-> "green",      patterns |-> <<"green", "accent">>] >>

intent_categories ==
    << [key |-> "all_assets",      patterns |-> <<"everything", "all assets", "all materials",
                                                  "complete set", "full package",
                                                  "everything available">>],
       [key |-> "documents",       patterns |-> <<"docs", "documentation", "papers", "materials",
                                                  "content", "files", "pdfs">>],
       [key |-> "sales_materials", patterns |-> <<"sales", "brief", "sheet", "1-pager", "1 pager",
                                                  "one pager", "overview", "summary",
                                                  "sales sheet">>],
       [key |-> "technical_docs",  patterns |-> <<"specs", "technical", "datasheet", "data sheet",
                                                  "whitepaper", "white paper", "guide", "manual">>],
       [key |-> "visual_assets",   patterns |-> <<"logos", "images", "graphics", "branding",
                                                  "visual", "brand assets">>],
       [key |-> "case_studies",    patterns |-> <<"case study", "success story", "customer story",
                                                  "case studies">>] >>

\* The lengths of the patterns of one table entry that are in the request
\* (0 for a pattern that is not).
MatchedLengths(entry, request) ==
    [k \in 1..Len(entry.patterns) |->
        IF Contains(entry.patterns[k], request) THEN Len(entry.patterns[k]) ELSE 0]

\* The two loops over a keyword table in _parse_request: 'break' leaves the
\* loop over the patterns only, so every later class that matches overwrites
\* the value; "" stands for None.
LastMatch(table, request) ==
    LET hits == {i \in 1..Len(table) : AnyIn(table[i].patterns, request)}
    IN  IF hits = {} THEN "" ELSE table[CHOOSE i \in hits : \A j \in hits : j <= i].key

\* all_matches sorted by (pattern length, confidence) descending, first
\* element: the sort is stable, so among the longest patterns the one met
\* first in table order.  conf is min(len / 10, 0.6).
DetectProduct(request) ==
    LET longest(i) == LET m == MatchedLengths(server_product_patterns[i], request)
                      IN  CHOOSE n \in {m[k] : k \in DOMAIN m} :
                              \A k \in DOMAIN m : m[k] <= n
        hits == {i \in 1..Len(server_product_patterns) : longest(i) > 0}
    IN  IF hits = {} THEN [product |-> "", confidence |-> 0]
        ELSE LET best == CHOOSE i \in hits :
                             /\ \A j \in hits : longest(j) <= longest(i)
                             /\ \A j \in hits : longest(j) = longest(i) => i <= j
             IN  [product |-> server_product_patterns[best].key,
                  confidence |-> Min(30 * longest(best), 180)]

\* intent_scores, in fifteenths: the lengths of the matched patterns, at most 1.0.
IntentScores(request) ==
    [i \in 1..Len(intent_categories) |->
        LET m == MatchedLengths(intent_categories[i], request)
        IN  Min(SumTo(m, Len(m)), 15)]

\* max(intent_scores.items(), key=score): the first category, in the order
\* of the dict, that has the highest score.
PrimaryIntent(scores) ==
    CHOOSE i \in DOMAIN scores :
        /\ \A j \in DOMAIN scores : scores[j] <= scores[i]
        /\ \A j \in DOMAIN scores : scores[j] = scores[i] => i <= j

_get_confidence_level(score) ==
    IF score >= 240 THEN "high" ELSE IF score >= 120 THEN "medium" ELSE "low"

ParsedRequest(request_lower, detected, scores, primary) ==
    LET base == detected.confidence + (IF scores[primary] > 0 THEN 10 * scores[primary] ELSE 0)
        total == IF detected.product # "" /\ 10 * scores[primary] > 45
                 THEN Min((base * 13) \div 10, 300) ELSE base
    IN  [product |-> detected.product,
         background |-> LastMatch(server_background_patterns, request_lower),
         layout |-> LastMatch(server_layout_patterns, request_lower),
         primary_intent |-> intent_categories[primary].key,
         high_intent_count |-> Cardinality({i \in DOMAIN scores : 10 * scores[i] > 45}),
         confidence |-> Min(total, 300),
         needs_ciq_disambiguation |->
             /\ AnyIn(<<"ciq", "company">>, request_lower)
             /\ AnyIn(<<"product", "products", "portfolio", "offerings", "solutions",
                        "brands", "brand logos", "all logos", "available logos">>, request_lower)
             /\ ~AnyIn(<<"ciq company logo", "main ciq logo", "ciq brand logo",
                         "corporate logo", "company brand">>, request_lower)
             /\ detected.product = "ciq"]

_parse_request(request) ==
    LET request_lower == Lower(request)
        scores == IntentScores(request_lower)
    IN  ParsedRequest(request_lower, DetectProduct(request_lower), scores, PrimaryIntent(scores))

_legacy_score_asset(asset, parsed) ==
    IF asset.type = "document" THEN 60
    ELSE Min(30 + (IF parsed.background # "" /\ Get(asset, "background", "") = parsed.background
                   THEN 40 ELSE 0)
                + (IF parsed.layout # "" /\ Get(asset, "layout", "") = parsed.layout
                   THEN 30 ELSE 0),
             100)

IsSalesDocType(asset) ==
    AnyIn(<<"brief", "overview", "summary", "sales">>, Lower(Get(asset, "doc_type", "")))

_score_asset_semantic(asset, parsed) ==
    LET intent == parsed.primary_intent
        score ==
            IF intent = "all_assets" THEN 80
            ELSE IF intent = "documents" THEN (IF asset.type = "document" THEN 90 ELSE 20)
            ELSE IF intent = "sales_materials"
                 THEN (IF asset.type = "document"
                       THEN (IF IsSalesDocType(asset) THEN 100 ELSE 50)
                       ELSE 30)
            ELSE IF intent = "visual_assets"
                 THEN (IF asset.type # "document" THEN _legacy_score_asset(asset, parsed) ELSE 10)
            ELSE (IF asset.type = "document" THEN 60 ELSE _legacy_score_asset(asset, parsed))
    IN  IF parsed.high_intent_count > 1 THEN Min((score * 11) \div 10, 100) ELSE score

\* No background is compared here: every asset of the product whose score is
\* above 0 is a match, best score first.
_match_assets(data, product, parsed) ==
    IF \A i \in 1..Len(data.entries) : data.entries[i].key # product THEN <<>>
    ELSE LET product_assets == DictGet(data, product)
         IN  SortByScore(SelectSeq(
                 [k \in 1..Len(product_assets) |->
                     [score |-> _score_asset_semantic(product_assets[k], parsed),
                      asset |-> product_assets[k]]],
                 LAMBDA m : m.score > 0))

\* What get_brand_assets returns: the template of the dict (kind), its
\* 'confidence' entry, the assets whose url it holds, in their order, and the
\* text of its 'error' entry.
Result(kind, confidence, assets, error) ==
    [kind |-> kind, confidence |-> confidence, assets |-> assets, error |-> error]

ProcessingError == Result("error", "", <<>>, "Error processing request")

\* The entries of the legacy responses read asset['layout'], asset['background']
\* and, for a single asset, asset['color']: a record without them raises
\* KeyError, which get_brand_assets turns into the error dict.
LegacyList(kind, confidence, matches, keys) ==
    IF \E k \in 1..Len(matches) : ~(keys \subseteq DOMAIN matches[k].asset)
    THEN ProcessingError
    ELSE Result(kind, confidence, [k \in 1..Len(matches) |-> matches[k].asset], "")

\* _classify_assets_by_intent: the documents, and the logos (everything else).
Documents(assets) == SelectSeq(assets, LAMBDA a : a.type = "document")
Logos(assets) == SelectSeq(assets, LAMBDA a : a.type # "document")

_format_comprehensive_response(assets) ==
    Result("comprehensive", "high", Take(Logos(assets), 6) \o Documents(assets), "")

_format_document_focused_response(assets) ==
    IF Documents(assets) = <<>>
    THEN Result("no_documents", "medium", Take(Logos(assets), 3), "")
    ELSE Result("documents", "high", Documents(assets) \o Take(Logos(assets), 2), "")

\* One example per layout, in the order the layouts are met in the product's
\* collection: the first asset of the layout for light backgrounds, else the
\* first asset of the layout.
_generate_guided_response(data, product) ==
    LET product_assets == DictGet(data, product)
        n == Len(product_assets)
        example(k) ==
            LET same == {j \in 1..n : product_assets[j].layout = product_assets[k].layout}
                light == {j \in same : product_assets[j].background = "light"}
                pick == IF light # {} THEN light ELSE same
            IN  CHOOSE j \in pick : \A i \in pick : j <= i
        firsts == SelectSeq([k \in 1..n |-> k],
                     LAMBDA k : \A j \in 1..(k - 1) :
                                    product_assets[j].layout # product_assets[k].layout)
    IN  IF \E k \in 1..n : ~({"layout", "background", "color"} \subseteq DOMAIN product_assets[k])
        THEN ProcessingError
        ELSE Result("guided", "low",
                    [k \in 1..Len(firsts) |-> product_assets[example(firsts[k])]], "")

_format_legacy_enhanced_response(data, matches, parsed) ==
    LET level == _get_confidence_level(parsed.confidence)
        perfect_matches == SelectSeq(matches, LAMBDA m : m.score > 100)
        exact_matches == SelectSeq(matches, LAMBDA m : m.score >= 100)
        perfect_candidates ==
            IF parsed.background # "" /\ parsed.layout # ""
            THEN SelectSeq(exact_matches,
                     LAMBDA m : /\ m.asset.background = parsed.background
                                /\ m.asset.layout = parsed.layout)
            ELSE <<>>
        one == {"layout", "background", "color"}
        many == {"layout", "background"}
    IN  IF level \in {"low", "medium"} /\ parsed.background = "" /\ parsed.layout = ""
        THEN Result("clarifying", "clarifying", <<>>, "")
        ELSE IF level = "high" /\ Len(perfect_matches) = 1
        THEN LegacyList("perfect", "high", perfect_matches, one)
        ELSE IF level = "high" /\ Len(perfect_matches) > 1
        THEN LegacyList("perfect_matches", "high", perfect_matches, many)
        ELSE IF level = "high" /\ Len(exact_matches) = 1
        THEN LegacyList("exact", "high", exact_matches, one)
        ELSE IF level = "high" /\ Len(exact_matches) > 1
        THEN IF \E k \in 1..Len(exact_matches) :
                    /\ parsed.background # "" /\ parsed.layout # ""
                    /\ ~(many \subseteq DOMAIN exact_matches[k].asset)
             THEN ProcessingError
             ELSE IF Len(perfect_candidates) = 1
             THEN LegacyList("perfect", "high", perfect_candidates, one)
             ELSE LegacyList("best", "high", Take(exact_matches, 3), many)
        ELSE IF \/ level \in {"high", "medium"} /\ Len(matches) <= 4
                \/ level = "medium" /\ parsed.background # "" /\ Len(exact_matches) > 0
        THEN LegacyList("options", level,
                 Take(IF parsed.background # "" /\ Len(exact_matches) > 0
                      THEN exact_matches ELSE matches, 3),
                 many)
        ELSE _generate_guided_response(data, parsed.product)

\* asset_data['index']['products'] is read by the disambiguation and by the
\* product help: KeyError when the loaded dict has no 'index'.
NeedsIndex(data, result) == IF "index" \in data.keys THEN result ELSE ProcessingError

_format_response(data, matches, parsed) ==
    LET assets == [k \in 1..Len(matches) |-> matches[k].asset]
    IN  IF matches = <<>> THEN Result("no_assets", "none", <<>>, "")
        ELSE IF parsed.needs_ciq_disambiguation
        THEN NeedsIndex(data, Result("disambiguation", "clarifying", <<>>, ""))
        ELSE IF parsed.primary_intent = "all_assets"
        THEN _format_comprehensive_response(assets)
        ELSE IF parsed.primary_intent \in {"documents", "sales_materials"}
        THEN _format_document_focused_response(assets)
        ELSE _format_legacy_enhanced_response(data, matches, parsed)

\* _handle_global_query and _format_global_response: the assets of every
\* product that the intent includes, product by product.
RECURSIVE GlobalAssets(_, _, _)
GlobalAssets(data, intent, n) ==
    IF n = 0 THEN <<>>
    ELSE GlobalAssets(data, intent, n - 1) \o
         SelectSeq(data.entries[n].assets,
             LAMBDA a : \/ intent = "all_assets"
                        \/ intent = "documents" /\ a.type = "document"
                        \/ intent = "sales_materials" /\ a.type = "document" /\ IsSalesDocType(a)
                        \/ /\ intent = "technical_docs" /\ a.type = "document"
                           /\ AnyIn(<<"spec", "technical", "guide", "manual">>,
                                    Lower(Get(a, "doc_type", ""))))

_handle_global_query(data, parsed) ==
    LET assets == GlobalAssets(data, parsed.primary_intent, Len(data.entries))
    IN  IF assets = <<>> THEN Result("global_none", "medium", <<>>, "")
        ELSE Result("global", "high", assets, "")

\* find_assets, inside the try of get_brand_assets: asset_data['assets'] raises
\* KeyError when the loaded dict has no 'assets'.
find_assets(data, request) ==
    LET parsed == _parse_request(request)
    IN  IF parsed.product # ""
        THEN IF "assets" \notin data.keys THEN ProcessingError
             ELSE _format_response(data, _match_assets(data, parsed.product, parsed), parsed)
        ELSE IF parsed.primary_intent \in
                    {"documents", "sales_materials", "technical_docs", "all_assets"}
        THEN IF "assets" \notin data.keys THEN ProcessingError
             ELSE _handle_global_query(data, parsed)
        ELSE NeedsIndex(data, Result("help", "none", <<>>, ""))

(***************************************************************************)
(* server.py: the inventory, load_asset_data and the requests.  The JSON   *)
(* object is kept by its top-level keys and by the entries of its 'assets' *)
(* dict, product by product, in the order of the dict.                     *)
(***************************************************************************)

ServerLogo(product, layout, background) ==
    [type |-> "logo", layout |-> layout, background |-> background,
     color |-> IF background = "light" THEN "black" ELSE "white",
     filename |-> product \o "_" \o layout \o "_" \o background \o ".png",
     url |-> UrlBase \o product \o "/" \o product \o "_" \o layout \o "_" \o background \o ".png"]

ServerDocument(product) ==
    [type |-> "document", doc_type |-> "Solution Brief",
     filename |-> product \o "_solution_brief.pdf",
     url |-> UrlBase \o product \o "/" \o product \o "_solution_brief.pdf"]

\* The records a product can have, in the order of its dict.
FuzzballCatalog ==
    << ServerLogo("fuzzball", "icon", "light"),
       ServerLogo("fuzzball", "icon", "dark"),
       ServerLogo("fuzzball", "horizontal", "light"),
       ServerLogo("fuzzball", "horizontal", "dark"),
       ServerLogo("fuzzball", "vertical", "dark"),
       ServerDocument("fuzzball") >>

\* The records of the catalog at the positions in S, in catalog order.
SubCatalog(catalog, S) == SelectSeq(catalog, LAMBDA a : \E k \in S : catalog[k] = a)

ServerInventory(keys, fuzzball) ==
    [kind |-> "dict", keys |-> keys,
     entries |-> << [key |-> "ciq",
                     assets |-> << ServerLogo("ciq", "onecolor", "light"),
                                   ServerLogo("ciq", "onecolor", "dark") >>],
                    [key |-> "fuzzball", assets |-> fuzzball] >>]

ServerNone == [kind |-> "None", keys |-> {}, entries |-> <<>>]

\* The bodies the metadata URL serves: an inventory with the three sections,
\* a dict that lacks sections, or the empty dict.
ServerFetchOutcomes ==
    [status : FailedFetches, body : {ServerNone}]
    \cup [status : {"ok"},
          body : {ServerInventory({"assets", "rules", "index"}, SubCatalog(FuzzballCatalog, S)) :
                     S \in SUBSET (1..Len(FuzzballCatalog))}
                 \cup {ServerInventory({"assets"}, FuzzballCatalog),
                       ServerInventory({"rules", "index"}, <<>>),
                       [kind |-> "dict", keys |-> {}, entries |-> <<>>]}]

\* load_asset_data of server.py: asset_data is assigned before the structure
\* is validated, so the ValueError of the validation leaves the body in the
\* module global.
server_load_asset_data(data, fetch) ==
    IF fetch.status # "ok" THEN [ok |-> FALSE, asset_data |-> data]
    ELSE IF ~({"assets", "rules", "index"} \subseteq fetch.body.keys)
    THEN [ok |-> FALSE, asset_data |-> fetch.body]
    ELSE [ok |-> TRUE, asset_data |-> fetch.body]

\* 'not asset_data': None, or a dict without keys.
NotLoaded(data) == data.keys = {}

ServerRequests ==
    {"CIQ logo", "warewulf logo", "fuzzball dark", "fuzzball logos",
     "Fuzzball logos for dark background", "fuzzball logos dark icon",
     "fuzzball logos, light or dark", "fuzzball docs", "fuzzball technical guide",
     "ciq products", "ciq visual", "everything", "docs", "logos", "hello"}

\* get_brand_assets: the value it returns and the value it leaves in the
\* module global, for the outcome of the fetch it performs when asset_data
\* is not loaded.
get_brand_assets(data, fetch, request) ==
    LET loaded == IF NotLoaded(data) THEN server_load_asset_data(data, fetch)
                  ELSE [ok |-> TRUE, asset_data |-> data]
    IN  [asset_data |-> loaded.asset_data,
         result |-> IF ~loaded.ok
                    THEN Result("error", "", <<>>, "Unable to load asset data. Please try again.")
                    ELSE find_assets(loaded.asset_data, request)]

(***************************************************************************)
(* The state                                                               *)
(***************************************************************************)

VARIABLES
    asset_data,     \* the module global: None or the value of the last load
    pc,             \* "import": the module is being loaded; "idle": the server
                    \* waits for a tool call; "replied": a response is on its way
    call,           \* the tool call that was answered last
    fetched,        \* how the HTTP GET ended that this call performed
                    \* ("timeout", ..., "ok"), or NoFetch when it performed none
    match_result,   \* the dict match_assets returned to it (with original_request)
    response,       \* what the tool returned or raised
    fastmcp,        \* the process that runs ciq_brand_assets_fastmcp: its position
                    \* (pc), the tools registered with mcp, its own module global
                    \* asset_data, the tool calls on the event loop (task) and
                    \* what test_server returned (test)
    server          \* the process that runs server.py: its position (pc), its
                    \* own module global asset_data, the request of the tool
                    \* call answered last and what the tool returned (result)

vars == <<asset_data, pc, call, fetched, match_result, response, fastmcp, server>>

\* The state of the cloud server, and the state of the other servers.
cloud_vars == <<asset_data, pc, call, fetched, match_result, response>>
other_servers == <<fastmcp, server>>

NoFetch == "none"
NoCall == [op |-> "", request |-> "", background |-> NoBackground, text |-> ""]
NoAttributes ==
    [product |-> NoneAttr, background |-> NoneAttr, layout |-> NoneAttr,
     ciq_color_type |-> NoneAttr, total_confidence |-> 0]
NoMatch == MatchResult("", "", NoProduct, NoAttributes, "", <<>>, 0, 0)
NoResponse == Response("", "", "", <<>>)

\* The fastmcp process before its module body has run.
FastmcpNotStarted ==
    [pc |-> "import", tools |-> <<>>, asset_data |-> None, test |-> "",
     task |-> [t \in Tasks |-> [pc |-> "idle", call |-> NoToolCall, response |-> NoResponse]]]

NoResult == Result("", "", <<>>, "")

\* The server.py process before its module body has run.
ServerNotStarted ==
    [pc |-> "import", asset_data |-> ServerNone, request |-> "", result |-> NoResult]

\* The text returned when the load fails (without its leading cross mark, which
\* is no character of a TLA+ string; the same holds for the error texts).
Unavailable == Return("unavailable", "Sorry, couldn't load brand assets data.", <<>>)

Init ==
    /\ asset_data = None
    /\ pc = "import"
    /\ call = NoCall
    /\ fetched = NoFetch
    /\ match_result = NoMatch
    /\ response = NoResponse
    /\ fastmcp = FastmcpNotStarted
    /\ server = ServerNotStarted

\* The module-level call load_asset_data() when the server starts.
Startup ==
    /\ pc = "import"
    /\ \E fetch \in FetchOutcomes :
          asset_data' = load_asset_data(asset_data, fetch).asset_data
    /\ pc' = "idle"
    /\ UNCHANGED <<call, fetched, match_result, response>>
    /\ UNCHANGED other_servers

\* match_result['attributes']['original_request'] = request, when the result
\* has attributes.
WithOriginalRequest(result, request) ==
    IF result.tag = "success"
    THEN [result EXCEPT !.attributes = [original_request |-> request] @@ @]
    ELSE result

\* What get_brand_asset does with the dict match_assets returned.
Respond(result) ==
    [match    |-> result,
     response |-> IF result.tag = "raise" THEN Raise(result.error) ELSE format_response(result)]

\* get_brand_asset from the point where asset_data is loaded, on the text
\* with the background argument appended.
AnswerText(data, text) == Respond(WithOriginalRequest(match_assets(data, text), text))

Answer(data, request, background) == AnswerText(data, RequestText(request, background))

Answered(answer) ==
    /\ match_result' = answer.match
    /\ response' = answer.response

Called(request, background) ==
    call' = [op |-> "get_brand_asset", request |-> request, background |-> background,
             text |-> RequestText(request, background)]

\* Mutant of GetBrandAssetLoaded: the call fetches the inventory again although
\* asset_data is set.
GetBrandAssetRefetching(request, background) ==
    /\ pc = "idle"
    /\ asset_data # None
    /\ Answered(Answer(asset_data, request, background))
    /\ Called(request, background)
    /\ \E fetch \in FetchOutcomes :
          /\ fetched' = fetch.status
          /\ asset_data' = load_asset_data(asset_data, fetch).asset_data
    /\ pc' = "replied"
    /\ UNCHANGED other_servers

\* get_brand_asset when asset_data is set: no load.
GetBrandAssetLoaded(request, background) ==
    /\ pc = "idle"
    /\ asset_data # None
    /\ Answered(Answer(asset_data, request, background))
    /\ Called(request, background)
    /\ fetched' = NoFetch
    /\ pc' = "replied"
    /\ UNCHANGED asset_data
    /\ UNCHANGED other_servers

GetBrandAssetLoading(request, background) ==
    /\ pc = "idle"
    /\ asset_data = None
    /\ \E fetch \in FetchOutcomes :
          LET loaded == load_asset_data(asset_data, fetch)
          IN  /\ asset_data' = loaded.asset_data
              /\ fetched' = fetch.status
              /\ IF ~loaded.ok
                 THEN /\ match_result' = NoMatch
                      /\ response' = Unavailable
                 ELSE Answered(Answer(loaded.asset_data, request, background))
    /\ Called(request, background)
    /\ pc' = "replied"
    /\ UNCHANGED other_servers

GetBrandAsset(request, background) ==
    \/ GetBrandAssetLoaded(request, background)
    \/ GetBrandAssetLoading(request, background)

ListAllAssets ==
    /\ pc = "idle"
    /\ IF asset_data # None
       THEN /\ response' = ListAssets(asset_data)
            /\ fetched' = NoFetch
            /\ UNCHANGED asset_data
       ELSE \E fetch \in FetchOutcomes :
               LET loaded == load_asset_data(asset_data, fetch)
               IN  /\ asset_data' = loaded.asset_data
                   /\ fetched' = fetch.status
                   /\ response' = IF loaded.ok THEN ListAssets(loaded.asset_data)
                                  ELSE Unavailable
    /\ call' = [NoCall EXCEPT !.op = "list_all_assets"]
    /\ match_result' = NoMatch
    /\ pc' = "replied"
    /\ UNCHANGED other_servers

\* Mutant of GetBrandAssetAgain: the text with the background appended is
\* taken as the request of the next call.
GetBrandAssetAgainOnText ==
    /\ pc = "replied"
    /\ call.op = "get_brand_asset"
    /\ asset_data # None
    /\ Answered(Answer(asset_data, call.text, call.background))
    /\ fetched' = NoFetch
    /\ UNCHANGED <<asset_data, pc, call>>
    /\ UNCHANGED other_servers

\* The caller takes the response of a call that found or left asset_data
\* set, and calls get_brand_asset once more with the same request and the
\* same background argument.
GetBrandAssetAgain ==
    /\ pc = "replied"
    /\ call.op = "get_brand_asset"
    /\ asset_data # None
    /\ Answered(Answer(asset_data, call.request, call.background))
    /\ fetched' = NoFetch
    /\ UNCHANGED <<asset_data, pc, call>>
    /\ UNCHANGED other_servers

\* The caller takes the response; the server waits for the next call.
Deliver ==
    /\ pc = "replied"
    /\ pc' = "idle"
    /\ call' = NoCall
    /\ fetched' = NoFetch
    /\ match_result' = NoMatch
    /\ response' = NoResponse
    /\ UNCHANGED asset_data
    /\ UNCHANGED other_servers

Next ==
    \/ Startup
    \/ \E request \in Requests, background \in BackgroundArgs :
          GetBrandAsset(request, background)
    \/ GetBrandAssetAgain
    \/ ListAllAssets
    \/ Deliver

Spec == Init /\ [][Next]_vars

(***************************************************************************)
(* ciq_brand_assets_fastmcp: the process                                   *)
(***************************************************************************)

\* The module body: the decorators register the tools.
FastmcpImport ==
    /\ fastmcp.pc = "import"
    /\ fastmcp' = [fastmcp EXCEPT !.pc = "imported", !.tools = FastmcpTools]
    /\ UNCHANGED <<cloud_vars, server>>

\* Run as a script: load_asset_data(), then mcp.run() serves the tools.
FastmcpMain ==
    /\ fastmcp.pc = "imported"
    /\ \E fetch \in FastmcpFetchOutcomes :
          fastmcp' = [fastmcp EXCEPT !.pc = "serving",
                                     !.asset_data = FastmcpLoad(@, fetch).asset_data]
    /\ UNCHANGED <<cloud_vars, server>>

\* Imported by test_server(): it calls load_asset_data() and awaits the bool
\* that returns, which raises TypeError; 'except Exception' makes the result
\* False before the tools are looked up.
TestServer ==
    /\ fastmcp.pc = "imported"
    /\ \E fetch \in FastmcpFetchOutcomes :
          fastmcp' = [fastmcp EXCEPT !.pc = "tested", !.test = "failed",
                                     !.asset_data = FastmcpLoad(@, fetch).asset_data]
    /\ UNCHANGED <<cloud_vars, server>>

\* A tool coroutine runs up to its first await: with asset_data None it hands
\* load_asset_data to the executor and yields, otherwise it runs to its end.
FastmcpCall(t, c) ==
    /\ fastmcp.pc = "serving"
    /\ fastmcp.task[t].pc = "idle"
    /\ fastmcp' = [fastmcp EXCEPT !.task[t] =
          IF fastmcp.asset_data = None
          THEN [pc |-> "loading", call |-> c, response |-> NoResponse]
          ELSE [pc |-> "done", call |-> c, response |-> ToolBody(fastmcp.asset_data, c)]]
    /\ UNCHANGED <<cloud_vars, server>>

\* The executor thread of task t finishes load_asset_data.
ExecutorLoad(t) ==
    /\ fastmcp.task[t].pc = "loading"
    /\ \E fetch \in FastmcpFetchOutcomes :
          fastmcp' = [fastmcp EXCEPT !.asset_data = FastmcpLoad(@, fetch).asset_data,
                                     !.task[t].pc = "loaded"]
    /\ UNCHANGED <<cloud_vars, server>>

\* The coroutine goes on after the await: the second test of asset_data and
\* the body.
FastmcpResume(t) ==
    /\ fastmcp.task[t].pc = "loaded"
    /\ fastmcp' = [fastmcp EXCEPT !.task[t].pc = "done", !.task[t].response =
          IF fastmcp.asset_data = None
          THEN Return("unavailable",
                      "Sorry, I couldn't load the brand assets data. Please try again later.",
                      <<>>)
          ELSE ToolBody(fastmcp.asset_data, fastmcp.task[t].call)]
    /\ UNCHANGED <<cloud_vars, server>>

\* The caller takes the response of task t.
FastmcpReturn(t) ==
    /\ fastmcp.task[t].pc = "done"
    /\ fastmcp' = [fastmcp EXCEPT !.task[t] = FastmcpNotStarted.task[t]]
    /\ UNCHANGED <<cloud_vars, server>>

NextFastmcp ==
    \/ FastmcpImport
    \/ FastmcpMain
    \/ TestServer
    \/ \E t \in Tasks, c \in FastmcpCalls : FastmcpCall(t, c)
    \/ \E t \in Tasks : ExecutorLoad(t)
    \/ \E t \in Tasks : FastmcpResume(t)
    \/ \E t \in Tasks : FastmcpReturn(t)

SpecFastmcp == Init /\ [][NextFastmcp]_vars

(***************************************************************************)
(* server.py: the process                                                  *)
(***************************************************************************)

\* The module body: load_asset_data() on startup; the server starts with
\* limited functionality when it fails.
ServerImport ==
    /\ server.pc = "import"
    /\ \E fetch \in ServerFetchOutcomes :
          server' = [server EXCEPT !.pc = "idle",
                                   !.asset_data = server_load_asset_data(@, fetch).asset_data]
    /\ UNCHANGED <<cloud_vars, fastmcp>>

\* The tool get_brand_assets(request).
GetBrandAssets(request) ==
    /\ server.pc = "idle"
    /\ \E fetch \in IF NotLoaded(server.asset_data) THEN ServerFetchOutcomes
                    ELSE {[status |-> "timeout", body |-> ServerNone]} :
          LET done == get_brand_assets(server.asset_data, fetch, request)
          IN  server' = [pc |-> "replied", asset_data |-> done.asset_data,
                         request |-> request, result |-> done.result]
    /\ UNCHANGED <<cloud_vars, fastmcp>>

\* The caller takes the result.
ServerDeliver ==
    /\ server.pc = "replied"
    /\ server' = [server EXCEPT !.pc = "idle", !.request = "", !.result = NoResult]
    /\ UNCHANGED <<cloud_vars, fastmcp>>

NextServer ==
    \/ ServerImport
    \/ \E request \in ServerRequests : GetBrandAssets(request)
    \/ ServerDeliver

SpecServer == Init /\ [][NextServer]_vars

(***************************************************************************)
(* Properties                                                              *)
(***************************************************************************)

\* A get_brand_asset call has been answered.
Replied == pc = "replied" /\ call.op = "get_brand_asset"

\* It was answered from a loaded inventory, for a product that has assets.
Matched == Replied /\ asset_data.kind = "dict" /\ match_result.tag = "success"

Detected == match_result.attributes
Ranking == match_result.scored_assets

\* The collection of the detected product in the loaded inventory.
Collection == DictGet(asset_data, match_result.product.asset_key)

IsProductType == match_result.product.structure_type = "product"
IsCompanyType == match_result.product.id = "ciq"


\* C1: when a background is detected, every asset of the ranked list and
\* every asset the response shows has that background in its background
\* field: no asset for the other background gets into the answer.
C1_BackgroundNeverLeaks ==
    (Replied /\ Detected.background.set) =>
        /\ \A k \in 1..Len(Ranking) :
              Get(Ranking[k].asset, "background", "") = Detected.background.value
        /\ \A k \in 1..Len(response.shown) :
              Get(response.shown[k], "background", "") = Detected.background.value

\* C1 witness: a background is detected, the product's collection holds
\* assets for both backgrounds, the filter removed some and the response
\* shows an asset.
C1_Witness ==
    /\ Matched
    /\ Detected.background.set
    /\ match_result.filtered_count < match_result.original_count
    /\ Len(response.shown) >= 1

\* C2: get_brand_asset returns a string and raises nothing, also when the
\* background filter leaves candidates, scoring ranks none of them and the
\* confidence level is medium or high.
C2_EmptyRankingIsAnswered ==
    (/\ Matched
     /\ match_result.filtered_count > 0
     /\ Len(Ranking) = 0
     /\ match_result.confidence_level \in {"medium", "high"})
    => response.outcome = "return"

\* C3: a request in which a product is detected and no background, layout or
\* variant keyword is present is LOW confidence and is answered by the
\* question for the background, never by an asset.
C3_ProductOnlyAsksBackground ==
    (/\ Matched
     /\ ~Detected.background.set
     /\ ~Detected.layout.set
     /\ ~Detected.ciq_color_type.set)
    => /\ match_result.confidence_level = "low"
       /\ response.kind = "ask_background"
       /\ response.shown = <<>>

\* C4: for a product-type product, unless the detected layout is vertical, no
\* asset whose layout is vertical is in the ranked list or in the response.
C4_NoVerticalUnlessRequested ==
    (/\ Matched
     /\ IsProductType
     /\ ~(Detected.layout.set /\ Detected.layout.value = "vertical"))
    => /\ \A k \in 1..Len(Ranking) : Get(Ranking[k].asset, "layout", "") # "vertical"
       /\ \A k \in 1..Len(response.shown) : Get(response.shown[k], "layout", "") # "vertical"

\* C4 witness: a product-type request without vertical layout, answered with
\* an asset, whose collection holds a vertical asset that passes the
\* background filter.
C4_Witness ==
    /\ Matched
    /\ IsProductType
    /\ Detected.background.set
    /\ ~Detected.layout.set
    /\ \E k \in 1..Len(Collection) :
          /\ Collection[k].layout = "vertical"
          /\ Collection[k].background = Detected.background.value
    /\ Len(response.shown) >= 1

\* C5: with an explicit background argument b, the background used for
\* filtering and scoring is b, whatever the request text says.
C5_BackgroundArgumentWins ==
    (Matched /\ call.background # NoBackground)
    => /\ Detected.background.set
       /\ Detected.background.value = call.background

\* C6: for a product-type product, a request in which product, background and
\* layout are all detected, and whose collection holds an asset of that
\* layout for that background, is HIGH confidence and is answered with
\* exactly one asset, of the requested layout and background.
C6_FullySpecifiedIsHighSingle ==
    (/\ Matched
     /\ IsProductType
     /\ Detected.background.set
     /\ Detected.layout.set
     /\ \E k \in 1..Len(Collection) :
           /\ Collection[k].layout = Detected.layout.value
           /\ Collection[k].background = Detected.background.value)
    => /\ match_result.confidence_level = "high"
       /\ response.outcome = "return"
       /\ Len(response.shown) = 1
       /\ response.shown[1].layout = Detected.layout.value
       /\ response.shown[1].background = Detected.background.value

\* C7: for the company-type product ciq, a request in which the background is
\* detected and no color-scheme variant is detected is answered by the
\* question for the variant, never by an asset.
C7_CiqBackgroundOnlyAsksVariant ==
    (/\ Matched
     /\ IsCompanyType
     /\ Detected.background.set
     /\ ~Detected.ciq_color_type.set)
    => /\ response.kind = "ask_variant"
       /\ response.shown = <<>>

\* C8: for a product-type product, with a background and no layout detected,
\* when the collection holds a horizontal asset for that background the
\* top-ranked asset is a horizontal one.
C8_DefaultTopIsHorizontal ==
    (/\ Matched
     /\ IsProductType
     /\ Detected.background.set
     /\ ~Detected.layout.set
     /\ \E k \in 1..Len(Collection) :
           /\ Collection[k].layout = "horizontal"
           /\ Collection[k].background = Detected.background.value)
    => /\ Len(Ranking) >= 1
       /\ Ranking[1].asset.layout = "horizontal"

\* C9: a request in which a product and a background are both detected is
\* 'high' confidence and is answered by the direct single-asset answer.
C9_ProductAndBackgroundIsHigh ==
    (Matched /\ Detected.background.set)
    => /\ match_result.confidence_level = "high"
       /\ response.kind = "high"
       /\ Len(response.shown) = 1

\* C10: when the cache is empty and the fetch fails (timeout, network error,
\* non-200 status, unparseable body), get_brand_asset and list_all_assets
\* return the "couldn't load" message and raise nothing.
C10_FailedFetchIsReported ==
    (pc = "replied" /\ fetched \in FailedFetches)
    => /\ response.outcome = "return"
       /\ response.kind = "unavailable"
       /\ response.message = "Sorry, couldn't load brand assets data."

\* C10 witness: get_brand_asset was called for a product with the cache
\* empty, and the fetch timed out.
C10_Witness ==
    /\ Replied
    /\ fetched = "timeout"
    /\ call.request = "Fuzzball logo for light background"
    /\ asset_data = None

\* C11: once a successful load has put the inventory into asset_data, no
\* get_brand_asset or list_all_assets call performs another fetch, and no
\* call changes asset_data or an asset record in it.
C11_LoadedOnce ==
    [][asset_data.kind \in {"dict", "list"} =>
          /\ asset_data' = asset_data
          /\ fetched' = NoFetch]_vars

\* C11 witness: a get_brand_asset call answered with an asset from an
\* inventory that an earlier step had loaded.
C11_Witness ==
    /\ Matched
    /\ fetched = NoFetch
    /\ Len(response.shown) >= 1

\* C12: while the cache is empty, concurrent calls of the fastmcp tools fetch
\* the inventory at most once: no two tasks have a load in flight at the
\* same time.
C12_SingleFlight ==
    Cardinality({t \in Tasks : fastmcp.task[t].pc = "loading"}) <= 1

\* C19: ciq_brand_assets_fastmcp registers the three tools test_server looks
\* up: get_brand_asset, list_all_assets and get_brand_guidelines.
C19_ExpectedToolsRegistered ==
    fastmcp.pc # "import" =>
        \A k \in 1..Len(expected_tools) :
            \E i \in 1..Len(fastmcp.tools) : fastmcp.tools[i] = expected_tools[k]

\* C13: when a background is detected and no asset of the detected product
\* has that background, get_brand_asset returns an error message that names
\* the product, shows no asset, and is not the data-unavailable message.
C13_NoCompatibleAssetIsAnError ==
    (/\ Replied
     /\ asset_data.kind = "dict"
     /\ Detected.product.set
     /\ Detected.background.set
     /\ \A k \in 1..Len(Collection) :
           Lower(Get(Collection[k], "background", "")) # Detected.background.value)
    => /\ response.outcome = "return"
       /\ response.kind = "error"
       /\ Contains(match_result.product.name, response.message)
       /\ response.shown = <<>>
       /\ response.message # Unavailable.message

\* C13 witness: the product's collection holds assets, all of them for the
\* other background, and the call was answered.
C13_Witness ==
    /\ Replied
    /\ asset_data.kind = "dict"
    /\ Detected.product.set
    /\ Detected.background.set
    /\ Len(Collection) >= 1
    /\ \A k \in 1..Len(Collection) : Collection[k].background # Detected.background.value
    /\ response.kind = "error"

\* C14: a record without url is skipped: when the product's collection holds
\* a record without url and the ranking holds a well-formed record,
\* get_brand_asset returns an answer whose assets all have a url.
C14_RecordWithoutUrlIsSkipped ==
    (/\ Matched
     /\ \E k \in 1..Len(Collection) : "url" \notin DOMAIN Collection[k]
     /\ \E k \in 1..Len(Ranking) : "url" \in DOMAIN Ranking[k].asset)
    => /\ response.outcome = "return"
       /\ \A k \in 1..Len(response.shown) : "url" \in DOMAIN response.shown[k]

\* The capped keyword scores of the products on the texts of the model.
ProductScoreTable == [t \in RequestTexts |-> ProductScores(Lower(t))]

\* C15: the detected product is the one with the highest capped keyword
\* score; among products with the same highest score it is the one
\* registered first; without a matching keyword no product is detected.
C15_HighestScoreFirstRegistered ==
    (Replied /\ match_result.tag # "") =>
        LET scores == ProductScoreTable[call.text]
        IN  IF \A i \in DOMAIN scores : scores[i] = 0
            THEN ~Detected.product.set
            ELSE /\ Detected.product.set
                 /\ \E i \in DOMAIN scores :
                       /\ product_patterns[i].key = Detected.product.value
                       /\ Detected.product.confidence = scores[i]
                       /\ \A j \in DOMAIN scores :
                             /\ scores[j] <= scores[i]
                             /\ j < i => scores[j] < scores[i]

\* C15 witness: a call on a text for which two products share the highest
\* score.
C15_Witness ==
    /\ Replied
    /\ match_result.tag # ""
    /\ \E i, j \in DOMAIN ProductScoreTable[call.text] :
          /\ i < j
          /\ ProductScoreTable[call.text][i] = ProductScoreTable[call.text][j]
          /\ ProductScoreTable[call.text][i] > 0
          /\ \A k \in DOMAIN ProductScoreTable[call.text] :
                ProductScoreTable[call.text][k] <= ProductScoreTable[call.text][i]

C17_UrlsComeFromTheCollection ==
    Matched =>
        \A k \in 1..Len(response.shown) :
            /\ "url" \in DOMAIN response.shown[k]
            /\ \E j \in 1..Len(Collection) :
                  /\ Collection[j] = response.shown[k]
                  /\ Collection[j].url = response.shown[k].url

\* C17 witness: an asset of the RLC-AI collection was shown, from an
\* inventory that also holds a fuzzball collection.
C17_Witness ==
    /\ Matched
    /\ match_result.product.id = "rlc-ai"
    /\ Len(response.shown) >= 1
    /\ Len(DictGet(asset_data, "fuzzball_logos")) >= 1

\* C18: list_all_assets lists every collection of the inventory other than
\* brand_guidelines, and the total it prints is the sum of the counts it
\* lists.
C18_ListsEveryCollection ==
    (pc = "replied" /\ call.op = "list_all_assets" /\ response.kind = "list") =>
        /\ Len(response.listed)
              = Cardinality({i \in 1..Len(asset_data.entries) :
                                asset_data.entries[i].key # "brand_guidelines"})
        /\ response.total
              = SumTo([k \in 1..Len(response.listed) |-> response.listed[k].count],
                      Len(response.listed))

\* What _parse_request detects in each request of the model.
ServerParsed == [r \in ServerRequests |-> _parse_request(r)]

\* C20: when server.py detects a product and a background in the request of
\* get_brand_assets, every logo asset the result lists has that background
\* in its background field; a logo for the other background is never listed.
C20_ListedLogosHaveDetectedBackground ==
    (/\ server.pc = "replied"
     /\ ServerParsed[server.request].product # ""
     /\ ServerParsed[server.request].background # "")
    => \A k \in 1..Len(server.result.assets) :
           server.result.assets[k].type # "document"
           => server.result.assets[k].background = ServerParsed[server.request].background

\* The intent scores of each request of the model.
ServerIntentScores == [r \in ServerRequests |-> IntentScores(Lower(r))]

\* The request answered last names a product, and no background, layout or
\* intent keyword; the inventory is loaded and has assets of that product.
ProductOnlyRequest ==
    /\ server.pc = "replied"
    /\ {"assets", "rules", "index"} \subseteq server.asset_data.keys
    /\ ServerParsed[server.request].product # ""
    /\ DictGet(server.asset_data, ServerParsed[server.request].product) # <<>>
    /\ ServerParsed[server.request].background = ""
    /\ ServerParsed[server.request].layout = ""
    /\ \A i \in DOMAIN ServerIntentScores[server.request] :
           ServerIntentScores[server.request][i] = 0

\* C21: for a request of server.py with a product and no background, layout
\* or intent keyword (such as 'CIQ logo'), get_brand_assets returns the
\* clarifying response that asks for the background, and lists no asset.
C21_ProductOnlyGetsBackgroundQuestion ==
    ProductOnlyRequest =>
        /\ server.result.kind = "clarifying"
        /\ server.result.confidence = "clarifying"
        /\ server.result.assets = <<>>

\* The questions a response can ask.
Questions == {"ask_background", "ask_variant", "ask_layout"}

\* C22: every LOW-confidence response of the cloud server asks one
\* clarifying question: the background question when the background is
\* undetected; the layout / variant question is asked only when the
\* background is detected, so never together with the background question.
C22_LowAsksOneQuestion ==
    /\ (Matched /\ match_result.confidence_level = "low")
           => /\ response.outcome = "return"
              /\ response.kind \in Questions
              /\ response.shown = <<>>
              /\ ~Detected.background.set => response.kind = "ask_background"
    /\ (Matched /\ response.kind \in {"ask_variant", "ask_layout"})
           => Detected.background.set

\* A LOW-confidence request with a detected product and layout has been
\* answered by the background question.
C22_Witness ==
    /\ Matched
    /\ match_result.confidence_level = "low"
    /\ Detected.layout.set
    /\ ~Detected.background.set
    /\ response.kind = "ask_background"

\* The position of a ranked asset in the collection of the detected product.
PositionInCollection(asset) == CHOOSE i \in 1..Len(Collection) : Collection[i] = asset

\* C23: a MEDIUM-confidence response shows the top-ranked asset and at most
\* two alternatives, three assets at most, in the order of the ranking;
\* the ranking is by descending score and, among assets of equal score, in
\* the iteration order of the product's collection.
C23_MediumShowsTopThreeInRankingOrder ==
    (Matched /\ response.kind = "medium")
    => /\ Len(response.shown) = Min(3, Len(Ranking))
       /\ Len(response.shown) >= 1
       /\ \A k \in 1..Len(response.shown) : response.shown[k] = Ranking[k].asset
       /\ \A i, j \in 1..Len(Ranking) :
              i < j => \/ Ranking[i].score > Ranking[j].score
                       \/ /\ Ranking[i].score = Ranking[j].score
                          /\ PositionInCollection(Ranking[i].asset)
                                < PositionInCollection(Ranking[j].asset)

\* A MEDIUM response was cut to three assets of a ranking of more than three,
\* whose second and third assets have the same score.
C23_Witness ==
    /\ Matched
    /\ response.kind = "medium"
    /\ Len(Ranking) > 3
    /\ Len(response.shown) = 3
    /\ Ranking[2].score = Ranking[3].score

\* The place of a color scheme in the default preference of the company
\* logos: neutral, then two-color, then green.
DefaultPreference(color_type) ==
    IF color_type = "1color_neutral" THEN 1 ELSE IF color_type = "2color" THEN 2 ELSE 3

\* C24: in the ranking of the company logos, without a detected variant every
\* 1color_neutral asset is above every 2color asset and every 2color asset
\* above every 1color_green asset; with a detected variant every asset of
\* that variant is above every asset of another variant.
C24_CiqVariantOrder ==
    (Matched /\ IsCompanyType)
    => \A i, j \in 1..Len(Ranking) :
          LET a == Ranking[i].asset.color_type
              b == Ranking[j].asset.color_type
          IN  IF Detected.ciq_color_type.set
              THEN (a = Detected.ciq_color_type.value /\ b # Detected.ciq_color_type.value)
                       => i < j
              ELSE DefaultPreference(a) < DefaultPreference(b) => i < j

\* The two-color variant was requested and the ranking holds a two-color
\* asset and an asset of another variant.
C24_Witness ==
    /\ Matched
    /\ IsCompanyType
    /\ Detected.ciq_color_type.set
    /\ Detected.ciq_color_type.value = "2color"
    /\ \E i, j \in 1..Len(Ranking) :
          /\ Ranking[i].asset.color_type = "2color"
          /\ Ranking[j].asset.color_type = "1color_neutral"

\* C25: when the text of the request holds a hero-context term, the scoring
\* of the company logos inside get_brand_asset gives every 2color asset the
\* bonus 'perfect for hero context' and gives no 1color_neutral asset the bonus
\* 'ideal for standard applications'.
C25_HeroContextIsSeenByTheScorer ==
    (Matched /\ IsCompanyType /\ AnyIn(HeroTerms, Lower(call.text)))
    => \A k \in 1..Len(Ranking) :
          /\ Ranking[k].asset.color_type = "2color"
                => Contains("perfect for hero context", Ranking[k].reasoning)
          /\ Ranking[k].asset.color_type = "1color_neutral"
                => ~Contains("ideal for standard applications", Ranking[k].reasoning)

RlcVariants == {"rlc-ai", "rlc-hardened", "rlc-lts"}

\* The RLC variants one of whose keywords is in each text of the model.
VariantsNamed ==
    [t \in RequestTexts |->
        {product_patterns[i].key : i \in {k \in 1..Len(product_patterns) :
            /\ product_patterns[k].key \in RlcVariants
            /\ AnyIn(product_patterns[k].patterns, Lower(t))}}]

\* C26: a request that holds a keyword of an RLC variant (rlc-ai,
\* rlc-hardened, rlc-lts) is resolved to that variant, never to the base
\* product rlc.
C26_VariantKeywordResolvesToVariant ==
    (Replied /\ asset_data.kind = "dict" /\ VariantsNamed[call.text] # {})
    => /\ DetectedAttributes[call.text].product.set
       /\ DetectedAttributes[call.text].product.value \in VariantsNamed[call.text]

\* What detect_attributes adds to total_confidence for the layout / variant
\* of a text: the confidence of the layout and that of the CIQ color type.
LayoutVariantConfidence(attributes) ==
    (IF attributes.layout.set THEN attributes.layout.confidence ELSE 0)
    + (IF attributes.ciq_color_type.set THEN attributes.ciq_color_type.confidence ELSE 0)

\* C27: for every request text, what detect_attributes adds to
\* total_confidence for the layout / variant is strictly less than the 60
\* points it adds for a detected background.
C27_LayoutVariantWeighsLessThanBackground ==
    (Replied /\ asset_data.kind = "dict")
    => LayoutVariantConfidence(DetectedAttributes[call.text]) < BackgroundPoints

\* The first class of each keyword table of server.py, in table order, that
\* has a keyword in each request of the model ("" when none has).
ServerFirstClasses ==
    [r \in ServerRequests |->
        [background |-> FirstMatch(server_background_patterns, Lower(r), 0).value,
         layout     |-> FirstMatch(server_layout_patterns, Lower(r), 0).value]]

\* C28: the background and the layout that _parse_request of server.py
\* detects are those of the first class, in table order, that has a keyword
\* in the text: a text with a light and a dark keyword yields 'light'.
C28_FirstMatchingClassWins ==
    server.pc = "replied"
    => /\ ServerParsed[server.request].background = ServerFirstClasses[server.request].background
       /\ ServerParsed[server.request].layout = ServerFirstClasses[server.request].layout

\* C29: a call of load_asset_data that returns False leaves the module
\* global asset_data as it was, and so leaves no value there that later calls
\* treat as loaded: after the tool call that reports the failed load
\* (server.py: 'Unable to load asset data'; the cloud server: 'couldn't load
\* brand assets data') asset_data is still not loaded.
C29_FailedLoadLeavesCacheUntouched ==
    [][/\ (server'.pc = "replied" /\ server.pc = "idle"
              /\ server'.result.error = "Unable to load asset data. Please try again.")
          => (server'.asset_data = server.asset_data \/ NotLoaded(server'.asset_data))
       /\ (pc' = "replied" /\ pc = "idle" /\ response'.kind = "unavailable")
          => (asset_data' = asset_data \/ asset_data' = None)]_vars

\* C30: in the cloud server a request whose confidence level is 'low' has no
\* detected background, and get_brand_asset never returns the variant
\* question or the layout question of _format_low_confidence.
C30_LowMeansNoBackground ==
    (Replied /\ asset_data.kind = "dict")
    => /\ _assess_confidence_level(DetectedAttributes[call.text].total_confidence) = "low"
             => ~DetectedAttributes[call.text].background.set
       /\ response.kind \notin {"ask_variant", "ask_layout"}

\* A LOW-confidence request for the company logo without a variant keyword
\* was answered: the background question, not the variant question.
C30_Witness ==
    /\ Matched
    /\ IsCompanyType
    /\ match_result.confidence_level = "low"
    /\ ~Detected.ciq_color_type.set
    /\ response.kind = "ask_background"

====
